---- MODULE Spec2Model ----
(***************************************************************************)
(* A model of xmlvalidator.XMLValidator (src/xmlvalidator.py): one         *)
(* validator instance bound to one archive path, the directories it        *)
(* extracts into, and the calls a client can make on it.                   *)
(*                                                                         *)
(* Strings are sequences of one-character strings, so that suffix tests,   *)
(* case folding, separator replacement and newline translation are         *)
(* computed as the code computes them.  A few multi-letter atoms stand     *)
(* for names whose spelling never matters: "T1", "T2", ... are the unique  *)
(* names tempfile.mkdtemp returns, "U" a directory named by the caller,    *)
(* "Z" the archive path, "NONE" the Python value None.                     *)
(***************************************************************************)
EXTENDS Integers, Sequences, FiniteSets, TLC

\* ------------------------------------------------------------------------
\* Bounds of the model.

\* An archive holds at most MaxEntries entries.
MaxEntries == 2

\* tempfile.mkdtemp is called at most MaxTemp times.
MaxTemp == 2

\* ------------------------------------------------------------------------
\* Python values.

\* None, as opposed to the empty string <<>>.
None == <<"NONE">>

\* bool(x) of an Optional[str].
Truthy(x) == x # None /\ x # <<>>

\* An invalid UTF-8 byte of a file's content.
BAD == "\\xff"

\* ------------------------------------------------------------------------
\* str and os.path operations (posixpath: os.sep is "/").

\* s.endswith(suf)
EndsWith(s, suf) ==
    /\ Len(suf) <= Len(s)
    /\ SubSeq(s, Len(s) - Len(suf) + 1, Len(s)) = suf

\* s.startswith(pre)
StartsWith(s, pre) ==
    /\ Len(pre) <= Len(s)
    /\ SubSeq(s, 1, Len(pre)) = pre

\* c.lower() for one character of the alphabet in use
Lower(c) ==
    CASE c = "X" -> "x"
      [] c = "M" -> "m"
      [] c = "L" -> "l"
      [] OTHER -> c

\* s.lower()
LowerStr(s) == [i \in 1..Len(s) |-> Lower(s[i])]

\* s.replace('\\', '/')
ReplaceBackslash(s) == [i \in 1..Len(s) |-> IF s[i] = "\\" THEN "/" ELSE s[i]]

\* The index of the last "/" of s, 0 when it has none.
LastSlash(s) ==
    LET idx == {i \in 1..Len(s) : s[i] = "/"}
    IN  IF idx = {} THEN 0 ELSE CHOOSE i \in idx : \A j \in idx : j <= i

\* os.path.basename(s)
Basename(s) == SubSeq(s, LastSlash(s) + 1, Len(s))

\* os.path.join(a, b)
Join(a, b) ==
    IF b # <<>> /\ b[1] = "/" THEN b
    ELSE IF a = <<>> \/ a[Len(a)] = "/" THEN a \o b
    ELSE a \o <<"/">> \o b

\* s.split("/")
RECURSIVE Split(_)
Split(s) ==
    LET idx == {i \in 1..Len(s) : s[i] = "/"}
    IN  IF idx = {} THEN <<s>>
        ELSE LET i == CHOOSE k \in idx : \A j \in idx : k <= j
             IN  <<SubSeq(s, 1, i - 1)>> \o Split(SubSeq(s, i + 1, Len(s)))

\* "/".join(parts)
RECURSIVE JoinParts(_)
JoinParts(parts) ==
    IF parts = <<>> THEN <<>>
    ELSE IF Len(parts) = 1 THEN parts[1]
    ELSE parts[1] \o <<"/">> \o JoinParts(Tail(parts))

\* The path the kernel resolves p to: "", "." dropped, ".." steps up.
RECURSIVE Resolve(_, _)
Resolve(done, parts) ==
    IF parts = <<>> THEN done
    ELSE LET c == parts[1]
         IN  IF c = <<>> \/ c = <<".">> THEN Resolve(done, Tail(parts))
             ELSE IF c = <<".", ".">>
                  THEN Resolve(IF done = <<>> THEN <<>>
                               ELSE SubSeq(done, 1, Len(done) - 1), Tail(parts))
             ELSE Resolve(Append(done, c), Tail(parts))

NormPath(p) == <<"/">> \o JoinParts(Resolve(<<>>, Split(p)))

\* os.path.relpath(path, start) for a path below start
Relpath(path, start) == SubSeq(path, Len(start) + 2, Len(path))

\* ------------------------------------------------------------------------
\* The file system.  fs is the sequence of regular files in creation order,
\* each [path, content] with an absolute path; dirs is the set of
\* directories made by mkdtemp or makedirs (they may be empty).  A directory
\* below one of them exists exactly when a file lies in it.

IsFile(f, p) == \E i \in 1..Len(f) : f[i].path = p

IsDir(f, ds, p) ==
    \/ p = <<"/">>
    \/ p \in ds
    \/ \E i \in 1..Len(f) : StartsWith(f[i].path, p \o <<"/">>)

\* os.path.exists(p)
Exists(f, ds, p) == IsFile(f, NormPath(p)) \/ IsDir(f, ds, NormPath(p))

\* The content of the file at p.
ContentOf(f, p) == f[CHOOSE i \in 1..Len(f) : f[i].path = p].content

\* s without its repeated elements, first occurrences kept.
RECURSIVE Dedupe(_)
Dedupe(s) ==
    IF s = <<>> THEN <<>>
    ELSE LET r == Dedupe(SubSeq(s, 1, Len(s) - 1))
         IN  IF \E i \in 1..Len(r) : r[i] = s[Len(s)] THEN r
             ELSE Append(r, s[Len(s)])

Reverse(s) == [i \in 1..Len(s) |-> s[Len(s) + 1 - i]]

\* The names in directory d, in the order os.scandir lists them.  The order
\* is the file system's: creation order, or its reverse when rev.
FirstParts(below, d) ==
    [i \in 1..Len(below) |-> Split(Relpath(below[i].path, d))[1]]

InOrder(names, rev) == IF rev THEN Reverse(names) ELSE names

Listing(f, d, rev) ==
    InOrder(Dedupe(FirstParts(
                SelectSeq(f, LAMBDA e : StartsWith(e.path, d \o <<"/">>)), d)),
            rev)

\* os.walk(top), flattened: os.path.join(root, file) for every root, top-down,
\* and every file of its files list, in the order the loops visit them.
RECURSIVE Walk(_, _, _)
RECURSIVE WalkEach(_, _, _, _)
JoinEach(d, files) == [i \in 1..Len(files) |-> Join(d, files[i])]

WalkListed(f, d, kids, rev) ==
    JoinEach(d, SelectSeq(kids, LAMBDA n : IsFile(f, Join(d, n))))
    \o WalkEach(f, d, SelectSeq(kids, LAMBDA n : ~IsFile(f, Join(d, n))), rev)

Walk(f, d, rev) == WalkListed(f, d, Listing(f, d, rev), rev)

WalkEach(f, d, subs, rev) ==
    IF subs = <<>> THEN <<>>
    ELSE Walk(f, Join(d, subs[1]), rev) \o WalkEach(f, d, Tail(subs), rev)

\* The file system after writing text to the file at p.
WriteFile(f, p, text) ==
    IF IsFile(f, p)
    THEN [i \in 1..Len(f) |-> IF f[i].path = p THEN [f[i] EXCEPT !.content = text]
                                               ELSE f[i]]
    ELSE Append(f, [path |-> p, content |-> text])

\* shutil.rmtree(d): the files below d are gone.
RemoveTree(f, d) == SelectSeq(f, LAMBDA e : ~StartsWith(e.path, d \o <<"/">>))

\* ------------------------------------------------------------------------
\* The archive at zip_path: its status and its entries in archive order.
\* An entry is [name, text, date]: the name as the archive records it, the
\* member's content, and its stored modification time (0: a stored time
\* that is no valid date, e.g. month 0).

ZipPath == <<"Z">>

Digits == <<"1", "2", "3", "4", "5">>

NameA    == <<"a", ".", "x", "m", "l">>
NameDA   == <<"d", "/", "a", ".", "x", "m", "l">>
NameTxt  == <<"b", ".", "t", "x", "t">>
NameUp   == <<"c", ".", "X", "M", "L">>
NameDots == <<".", ".", "/", "a", ".", "x", "m", "l">>
NameBs   == <<"d", "\\", "a", ".", "x", "m", "l">>
NameNest == <<"a", ".", "x", "m", "l", "/", "a", ".", "x", "m", "l">>

EntryNames == {NameA, NameDA, NameTxt, NameUp, NameDots, NameBs, NameNest}

\* The content of the i-th member: plain text, text with CR LF and lone CR
\* line ends, or bytes that are not UTF-8.
Text(i, v) ==
    CASE v = "crlf" -> <<Digits[i], "\r", "\n", Digits[i], "\r", Digits[i], "\n">>
      [] v = "bad"  -> <<Digits[i], BAD>>
      [] OTHER      -> <<"<", Digits[i], ">">>

Entry(i, n, v) ==
    [name |-> n, text |-> Text(i, v), date |-> IF v = "nodate" THEN 0 ELSE i]

Variants == {"crlf", "bad", "nodate"}

\* The names of the archives explored with both listing orders, with a
\* member that is not a plain dated text, and with a validator, an archive
\* or a file system other than the default.
FewNames == {NameA, NameDA, NameTxt}
VariantNames == {NameA, NameUp}
SettingNames == {NameDA, NameTxt}

\* The archives of k entries with names from ns, the members told apart by
\* their content and date, and the member sp (if any) of variant v.
ArchivesOfLen(k, names, sps, vs) ==
    {[i \in 1..k |-> Entry(i, ns[i], IF i = sp THEN v ELSE "plain")] :
        ns \in [1..k -> names], sp \in sps, v \in vs}

\* Archives of plain dated texts under every name, no name twice.
PlainArchives ==
    {a \in UNION {ArchivesOfLen(k, EntryNames, {0}, {"plain"}) : k \in 0..MaxEntries} :
        \A i, j \in 1..Len(a) : a[i].name = a[j].name => i = j}

\* Archives one member of which is not a plain dated text.
VariantArchives ==
    UNION {ArchivesOfLen(k, VariantNames, 1..k, Variants) : k \in 1..MaxEntries}

\* Archives of plain dated texts under a few names, also the same name twice.
FewArchives ==
    UNION {ArchivesOfLen(k, FewNames, {0}, {"plain"}) : k \in 0..MaxEntries}

SettingArchives ==
    UNION {ArchivesOfLen(k, SettingNames, {0}, {"plain"}) : k \in 0..MaxEntries}

\* zip_ref.namelist()
Namelist(entries) == [i \in 1..Len(entries) |-> entries[i].name]

\* ------------------------------------------------------------------------
\* Messages: strings built as the f-strings build them.

MsgNotFound == <<"Zip file '">> \o ZipPath \o <<"' not found.">>
MsgNotZip == <<"'">> \o ZipPath \o <<"' is not a valid zip file.">>
MsgExtracted(folder) == <<"Files extracted to: '">> \o folder \o <<"'">>
MsgCorrupt == <<"Invalid or corrupted zip file.">>
MsgExtractError == <<"Error extracting zip file: ", "OSError">>
MsgNoFolder == <<"No extraction folder. Please extract zip file first.">>
MsgFileNotFound(name) == <<"File '">> \o name \o <<"' not found in extracted folder.">>
MsgRead(name) == <<"Successfully read '">> \o name \o <<"'">>
MsgReadError(cause) == <<"Error reading file: ", cause>>

\* ------------------------------------------------------------------------
\* The validator.  w is the part of the state its methods change:
\* [fs, dirs, ntemp, extract_folder, extracted_files].

\* validate_zip() without its os.path.exists test: a missing archive is
\* reported like a file that is no archive.
validate_zip_unchecked(status) ==
    IF status \in {"missing", "notzip"} THEN [ok |-> FALSE, msg |-> MsgNotZip]
    ELSE [ok |-> TRUE, msg |-> <<>>]

\* validate_zip(): (is_valid, error_message)
validate_zip(status) ==
    IF status = "missing" THEN [ok |-> FALSE, msg |-> MsgNotFound]
    ELSE IF status = "notzip" THEN [ok |-> FALSE, msg |-> MsgNotZip]
    ELSE [ok |-> TRUE, msg |-> <<>>]

\* The i-th directory tempfile.mkdtemp returns.
TempDir(i) == <<"/", "T", Digits[i]>>

\* The path below the target directory that extractall writes a member to:
\* empty, "." and ".." components of the name are dropped.
ExtractName(name) ==
    JoinParts(SelectSeq(Split(name),
                        LAMBDA c : c # <<>> /\ c # <<".">> /\ c # <<".", ".">>))

\* Writing a file at p fails: p is a directory, or lies below a regular file.
Conflicts(f, ds, p) ==
    \/ IsDir(f, ds, p)
    \/ \E k \in 1..(Len(p) - 1) : p[k + 1] = "/" /\ IsFile(f, SubSeq(p, 1, k))

\* zip_ref.extractall(folder) over the first n entries: the file system it
\* leaves, and whether writing a member raised OSError.
RECURSIVE ExtractAll(_, _, _, _, _)
ExtractAll(f, ds, folder, entries, n) ==
    IF n = 0 THEN [fs |-> f, failed |-> FALSE]
    ELSE LET prev == ExtractAll(f, ds, folder, entries, n - 1)
             p    == Join(folder, ExtractName(entries[n].name))
         IN  IF prev.failed THEN prev
             ELSE IF Conflicts(prev.fs, ds, p) THEN [fs |-> prev.fs, failed |-> TRUE]
             ELSE [fs |-> WriteFile(prev.fs, p, entries[n].text), failed |-> FALSE]

\* How many members a corrupted archive yields before BadZipFile is raised;
\* an intact archive yields them all.
ExtractCuts(status, entries) ==
    IF status = "corrupt"
    THEN 0..(IF Len(entries) = 0 THEN 0 ELSE Len(entries) - 1)
    ELSE {Len(entries)}

\* The directory extract_zip() extracts into.
ExtractionFolder(w, to) == IF Truthy(to) THEN to ELSE TempDir(w.ntemp + 1)

\* extract_zip(): (success, message, list_of_files), and the state it leaves.
\* The state once the folder is set and made and extractall has left the
\* file system as f.
WithFolder(w, to, folder, f) ==
    [w EXCEPT !.extract_folder = folder,
              !.dirs = @ \cup {folder},
              !.ntemp = IF Truthy(to) THEN @ ELSE @ + 1,
              !.fs = f]

\* The try block of extract_zip() after extractall has ended as x.
AfterExtractAll(w, status, entries, to, folder, x) ==
    IF x.failed
    THEN [w |-> WithFolder(w, to, folder, x.fs), success |-> FALSE,
          message |-> MsgExtractError, files |-> <<>>]
    ELSE IF status = "corrupt"
    THEN [w |-> WithFolder(w, to, folder, x.fs), success |-> FALSE,
          message |-> MsgCorrupt, files |-> <<>>]
    ELSE [w |-> [WithFolder(w, to, folder, x.fs)
                    EXCEPT !.extracted_files = Namelist(entries)],
          success |-> TRUE, message |-> MsgExtracted(folder),
          files |-> Namelist(entries)]

\* The try block of extract_zip() with the folder chosen.
ExtractInto(w, status, entries, to, cut, folder) ==
    AfterExtractAll(w, status, entries, to, folder,
                    ExtractAll(w.fs, w.dirs \cup {folder}, folder, entries, cut))

extract_zip(w, status, entries, to, cut) ==
    IF ~validate_zip(status).ok
    THEN [w |-> w, success |-> FALSE, message |-> validate_zip(status).msg,
          files |-> <<>>]
    ELSE ExtractInto(w, status, entries, to, cut, ExtractionFolder(w, to))

\* file.lower().endswith('.xml')
IsXmlName(file) == EndsWith(LowerStr(file), <<".", "x", "m", "l">>)

\* find_xml_files()
find_xml_files(w, rev) ==
    IF ~Truthy(w.extract_folder) \/ ~Exists(w.fs, w.dirs, w.extract_folder)
    THEN <<>>
    ELSE SelectSeq(Walk(w.fs, w.extract_folder, rev),
                   LAMBDA p : IsXmlName(Basename(p)))

\* The test of the entry loop of get_xml_file_timestamps: the entry matches
\* the file by its path, by a path suffix, or by its base name.
EntryMatches(entry_name, rel_path) ==
    LET normalized_entry == ReplaceBackslash(entry_name)
        normalized_rel   == ReplaceBackslash(rel_path)
    IN  \/ normalized_entry = normalized_rel
        \/ EndsWith(normalized_entry, <<"/">> \o normalized_rel)
        \/ Basename(normalized_entry) = Basename(normalized_rel)

\* zip_entry after the entry loop, as an index into the listing (0: None):
\* the loop breaks at the first entry that matches.
ZipEntryFor(entries, rel_path) ==
    LET hits == {i \in 1..Len(entries) : EntryMatches(entries[i].name, rel_path)}
    IN  IF hits = {} THEN 0 ELSE CHOOSE i \in hits : \A j \in hits : i <= j

\* zip_ref.getinfo(name): of entries of one name the archive keeps the last.
InfoIndex(entries, name) ==
    CHOOSE i \in 1..Len(entries) :
        /\ entries[i].name = name
        /\ \A j \in 1..Len(entries) : entries[j].name = name => j <= i

\* Timestamps as formatted by strftime, told apart by where the time is from.
ZipTime(date) == [src |-> "zip", t |-> date]
FileTime == [src |-> "file", t |-> 9]
Unknown == [src |-> "Unknown", t |-> 0]

\* How os.stat and datetime.fromtimestamp end for the files of one call: a
\* time, OSError, or an OverflowError that no inner handler catches.
StatOutcomes == {"ok", "oserror", "overflow"}

\* The outcomes that matter to a call: os.stat is reached only for a file
\* whose entry has no valid stored time.
StatOutcomesFor(entries) ==
    IF \E i \in 1..Len(entries) : entries[i].date = 0 THEN StatOutcomes ELSE {"ok"}

\* The file system fallback of the loop body: [raised, ts].
FileTimestamp(st) ==
    CASE st = "ok"      -> [raised |-> FALSE, ts |-> FileTime]
      [] st = "oserror" -> [raised |-> FALSE, ts |-> Unknown]
      [] OTHER          -> [raised |-> TRUE, ts |-> Unknown]

\* zip_info.date_time of the entry picked (0 also when none was picked).
DateOf(entries, z) ==
    IF z = 0 THEN 0 ELSE entries[InfoIndex(entries, entries[z].name)].date

\* The timestamp of a file whose entry z has the stored time d.
TimestampFrom(z, d, st) ==
    IF d # 0 THEN [raised |-> FALSE, ts |-> ZipTime(d), entry |-> z]
    ELSE [raised |-> FileTimestamp(st).raised, ts |-> FileTimestamp(st).ts,
          entry |-> z]

\* The loop body for one file with zip_entry z.
TimestampWith(entries, z, st) == TimestampFrom(z, DateOf(entries, z), st)

\* The loop body for one file: [raised, ts, entry].
TimestampOf(entries, rel_path, st) ==
    TimestampWith(entries, ZipEntryFor(entries, rel_path), st)

\* What the method returns when the loop raised with `done` already filled:
\* the handler prints a warning and falls through to `return timestamps`.
TimestampsAfterFailure(done) == done

\* How many files the loop handles: all, or those before the first one at
\* which the body raised.
Handled(res) ==
    IF \A i \in 1..Len(res) : ~res[i].raised THEN Len(res)
    ELSE (CHOOSE i \in 1..Len(res) :
            res[i].raised /\ \A j \in 1..(i - 1) : ~res[j].raised) - 1

\* The index of path p in xml_files.
IndexOf(xml_files, p) == CHOOSE i \in 1..Len(xml_files) : xml_files[i] = p

\* What the loop has written when it ends after n files.
LoopResult(xml_files, res, n) ==
    [timestamps |->
        IF n = Len(xml_files)
        THEN [p \in {xml_files[i] : i \in 1..n} |-> res[IndexOf(xml_files, p)].ts]
        ELSE TimestampsAfterFailure(
                 [p \in {xml_files[i] : i \in 1..n} |-> res[IndexOf(xml_files, p)].ts]),
     warned |-> n < Len(xml_files),
     chosen |-> [p \in {xml_files[i] : i \in 1..n} |-> res[IndexOf(xml_files, p)].entry]]

\* The loop over xml_files, res being what the body does for each file.
LoopOver(xml_files, res) == LoopResult(xml_files, res, Handled(res))

\* The with block of get_xml_file_timestamps().
TimestampLoop(xml_files, entries, folder, st) ==
    LoopOver(xml_files,
             [i \in 1..Len(xml_files) |->
                TimestampOf(entries, Relpath(xml_files[i], folder), st)])

\* get_xml_file_timestamps(): [timestamps, warned, chosen]; chosen is the
\* zip_entry picked for each file the loop handled.
get_xml_file_timestamps(w, status, entries, rev, st) ==
    IF status = "missing"
    THEN [timestamps |-> <<>>, warned |-> FALSE, chosen |-> <<>>]
    ELSE IF status = "notzip"
    THEN [timestamps |-> <<>>, warned |-> TRUE, chosen |-> <<>>]
    ELSE TimestampLoop(find_xml_files(w, rev), entries, w.extract_folder, st)

\* open(path, 'r', encoding='utf-8').read(): universal newlines turn
\* "\r\n" and "\r" into "\n".
RECURSIVE UniversalNewlines(_)
UniversalNewlines(text) ==
    IF text = <<>> THEN <<>>
    ELSE IF text[1] = "\r"
         THEN <<"\n">> \o UniversalNewlines(
                  IF Len(text) >= 2 /\ text[2] = "\n" THEN SubSeq(text, 3, Len(text))
                  ELSE Tail(text))
         ELSE <<text[1]>> \o UniversalNewlines(Tail(text))

\* The text the file object returns for the bytes on disk.
ReadText(bytes) == UniversalNewlines(bytes)

DecodeFails(bytes) == \E i \in 1..Len(bytes) : bytes[i] = BAD

\* The first element of s, or none.
FirstOr(s, none) == IF s = <<>> THEN none ELSE s[1]

\* The os.walk search of read_xml_file: the first file whose name is, or
\* ends with, xml_filename.
SearchHit(walk, xml_filename) ==
    FirstOr(SelectSeq(walk, LAMBDA p : \/ Basename(p) = xml_filename
                                       \/ EndsWith(Basename(p), xml_filename)),
            None)

\* The search of read_xml_file without its direct-path test: base names only.
TargetPathBySearch(w, rev, xml_filename) ==
    SearchHit(Walk(w.fs, w.extract_folder, rev), xml_filename)

\* target_path given direct_path.
DirectOrSearch(w, rev, xml_filename, direct_path) ==
    IF Exists(w.fs, w.dirs, direct_path) THEN direct_path
    ELSE SearchHit(Walk(w.fs, w.extract_folder, rev), xml_filename)

\* target_path after the search of read_xml_file (None: not found).
TargetPath(w, rev, xml_filename) ==
    DirectOrSearch(w, rev, xml_filename, Join(w.extract_folder, xml_filename))

\* open() and read() on the file that target_path resolves to.
OpenAndRead(f, xml_filename, target_path, real_path) ==
    IF ~IsFile(f, real_path)
    THEN [success |-> FALSE, message |-> MsgReadError("IsADirectoryError"),
          content |-> None, filename |-> None]
    ELSE IF DecodeFails(ContentOf(f, real_path))
    THEN [success |-> FALSE, message |-> MsgReadError("UnicodeDecodeError"),
          content |-> None, filename |-> None]
    ELSE [success |-> TRUE, message |-> MsgRead(xml_filename),
          content |-> ReadText(ContentOf(f, real_path)),
          filename |-> Basename(target_path)]

\* read_xml_file() from the test of target_path on.
ReadTarget(w, xml_filename, target_path) ==
    IF target_path = None \/ ~Exists(w.fs, w.dirs, target_path)
    THEN [success |-> FALSE, message |-> MsgFileNotFound(xml_filename),
          content |-> None, filename |-> None]
    ELSE OpenAndRead(w.fs, xml_filename, target_path, NormPath(target_path))

\* read_xml_file(xml_filename): (success, message, content, actual_filename)
read_xml_file(w, rev, xml_filename) ==
    IF ~Truthy(w.extract_folder)
    THEN [success |-> FALSE, message |-> MsgNoFolder, content |-> None,
          filename |-> None]
    ELSE ReadTarget(w, xml_filename, TargetPath(w, rev, xml_filename))

\* The same without the test that the folder is the validator's own.
CleanupDeletesAnyFolder(folder, to) == Truthy(folder)

\* The condition under which cleanup() removes the extraction folder.
CleanupDeletes(folder, to) == Truthy(folder) /\ to = None

\* The same without the handler: the error leaves cleanup().
CleanupRaisesError(error) == error

\* Whether an error of shutil.rmtree leaves cleanup() as an exception: the
\* handler catches Exception and prints a warning.
CleanupRaises(error) == FALSE

\* cleanup(): the state it leaves, whether it warned, whether it raised.
cleanup(w, to, deny) ==
    IF CleanupDeletes(w.extract_folder, to) /\ Exists(w.fs, w.dirs, w.extract_folder)
    THEN IF deny
         THEN [w |-> w, warned |-> ~CleanupRaises(TRUE), raised |-> CleanupRaises(TRUE)]
         ELSE [w |-> [w EXCEPT !.fs = RemoveTree(@, w.extract_folder),
                               !.dirs = @ \ {w.extract_folder}],
               warned |-> FALSE, raised |-> FALSE]
    ELSE [w |-> w, warned |-> FALSE, raised |-> FALSE]

\* The same with the message replaced instead of extended.
AppendMessageOverwrites(message, msg) == msg

\* result['message'] += f" | {msg}"
AppendMessage(message, msg) == message \o <<" | ">> \o msg

\* The result dictionary of process_zip as first built.
NewResult(target_xml) ==
    [success |-> FALSE, message |-> <<>>, extracted_files |-> <<>>,
     xml_files |-> <<>>, xml_timestamps |-> <<>>, xml_content |-> None,
     xml_filename |-> target_xml]

\* What process_zip has gathered after a successful extraction x.
Scanned(x, xml_files, t) ==
    [w |-> x.w, extracted |-> TRUE, message |-> x.message,
     extracted_files |-> x.files, xml_files |-> xml_files,
     xml_timestamps |-> t.timestamps, chosen |-> t.chosen]

\* The same without the early return: the later steps run whatever
\* extract_zip() returned.
ScanExtractedAnyway(x, status, entries, rev, st) ==
    Scanned(x, find_xml_files(x.w, rev),
            get_xml_file_timestamps(x.w, status, entries, rev, st))

\* process_zip after extract_zip() has returned x.
ScanExtracted(x, status, entries, rev, st) ==
    IF ~x.success
    THEN [w |-> x.w, extracted |-> FALSE, message |-> x.message,
          extracted_files |-> x.files, xml_files |-> <<>>,
          xml_timestamps |-> <<>>, chosen |-> <<>>]
    ELSE Scanned(x, find_xml_files(x.w, rev),
                 get_xml_file_timestamps(x.w, status, entries, rev, st))

\* The steps of process_zip that do not look at target_xml: extract, then
\* (after a successful extraction) find the XML files and their timestamps.
\* [w, extracted, message, extracted_files, xml_files, xml_timestamps, chosen]
process_zip_scan(w, status, entries, to, rev, cut, st) ==
    ScanExtracted(extract_zip(w, status, entries, to, cut), status, entries, rev, st)

\* The same with success left as it was.
NoXmlResultUnset(result) == result

\* The result of process_zip when no target is given and no XML file found.
NoXmlResult(result) == [result EXCEPT !.success = TRUE]

\* The result with what read_xml_file returned (r) merged in.
MergeRead(result, name, r) ==
    [result EXCEPT
        !.xml_content = r.content,
        !.xml_filename = IF Truthy(r.filename) THEN r.filename ELSE name,
        !.message = IF r.success THEN @ ELSE AppendMessage(@, r.message),
        !.success = r.success]

\* The read step of process_zip on `name`, merged into result.
ReadStep(result, w, rev, name) ==
    MergeRead(result, name, read_xml_file(w, rev, name))

\* The result after the extraction step.
ExtractedResult(scan, target_xml) ==
    [NewResult(target_xml) EXCEPT !.extracted_files = scan.extracted_files,
                                  !.message = scan.message]

\* The result after the XML files and their timestamps are gathered.
GatheredResult(scan, target_xml) ==
    [ExtractedResult(scan, target_xml) EXCEPT
        !.xml_files = scan.xml_files,
        !.xml_timestamps = scan.xml_timestamps]

\* process_zip(target_xml): the result dictionary, from what the first steps
\* (scan) gathered.
process_zip(scan, rev, target_xml) ==
    IF ~scan.extracted THEN ExtractedResult(scan, target_xml)
    ELSE IF Truthy(target_xml)
    THEN ReadStep(GatheredResult(scan, target_xml), scan.w, rev, target_xml)
    ELSE IF scan.xml_files # <<>>
    THEN ReadStep(GatheredResult(scan, target_xml), scan.w, rev,
                  Basename(scan.xml_files[1]))
    ELSE NoXmlResult(GatheredResult(scan, target_xml))

\* ------------------------------------------------------------------------
\* The state: the archive and the file system, the fields of the validator,
\* and the last call made on it with what it returned.

VARIABLES
    zip_status,       \* "ok", "corrupt", "notzip" or "missing"
    zip_entries,      \* the entries of the archive, in archive order
    list_rev,         \* the order in which the file system lists a directory
    deny_delete,      \* the file system refuses to delete (rmtree raises)
    fs,               \* the regular files, in creation order
    dirs,             \* the directories made by mkdtemp and makedirs
    ntemp,            \* how many directories mkdtemp has made
    extract_to,       \* self.extract_to
    extract_folder,   \* self.extract_folder
    extracted_files,  \* self.extracted_files
    ret               \* the last call: [op, arg, ...] and its return value

vars == <<zip_status, zip_entries, list_rev, deny_delete, fs, dirs, ntemp,
          extract_to, extract_folder, extracted_files, ret>>

\* A directory the caller names as extract_to.
CallerDir == <<"/", "U">>

\* The state of the validator and of the file system, as the methods take it.
World ==
    [fs |-> fs, dirs |-> dirs, ntemp |-> ntemp,
     extract_folder |-> extract_folder, extracted_files |-> extracted_files]

SetWorld(w) ==
    /\ fs' = w.fs
    /\ dirs' = w.dirs
    /\ ntemp' = w.ntemp
    /\ extract_folder' = w.extract_folder
    /\ extracted_files' = w.extracted_files

\* The record of a call, before its fields are filled in.
Blank ==
    [op |-> "init", arg |-> None, raised |-> FALSE, warned |-> FALSE,
     success |-> FALSE, message |-> <<>>, files |-> <<>>, xml_files |-> <<>>,
     xml_timestamps |-> <<>>, content |-> None, filename |-> None,
     chosen |-> <<>>]

\* A name that no member has, and a proper suffix of the members' names.
MissingName == <<"q">>
SuffixName == <<"x", "m", "l">>

\* The names a client asks read_xml_file and process_zip for: the members'
\* paths and base names, a suffix, and a name that is not there.
ReadNames ==
    {ExtractName(zip_entries[i].name) : i \in 1..Len(zip_entries)}
    \cup {Basename(zip_entries[i].name) : i \in 1..Len(zip_entries)}
    \cup {MissingName, SuffixName}

\* A file of the host that no extraction made, and the names that lead to
\* it from an extraction folder: its absolute path, and a path that steps up.
OutsideFile == <<"/", "o">>
OutsideText == <<"s">>
TraversalNames == {OutsideFile, <<".", ".", "/", "o">>}

\* The validator as XMLValidator(zip_path) builds it, on an intact archive,
\* with a file system that deletes what it is asked to.
DefaultSetting ==
    /\ zip_status = "ok"
    /\ extract_to = None
    /\ ~deny_delete
    /\ dirs = {}

\* __init__: no extraction yet.  The inputs vary one way at a time: the
\* members' names and the listing order; the members' content and dates; the
\* archive's condition, extract_to and the file system's behaviour.
Init ==
    /\ zip_status \in {"ok", "corrupt", "notzip", "missing"}
    /\ zip_entries \in PlainArchives \cup FewArchives \cup VariantArchives
    /\ list_rev \in BOOLEAN
    /\ extract_to \in {None, <<>>, CallerDir}
    /\ deny_delete \in BOOLEAN
    /\ dirs \in {{}, {CallerDir}}
    /\ zip_status \in {"notzip", "missing"} => zip_entries = <<>>
    /\ deny_delete => extract_to = None
    /\ dirs # {} => extract_to = CallerDir
    /\ list_rev => Len(zip_entries) >= 2 /\ zip_entries \in FewArchives
    /\ \/ DefaultSetting
       \/ zip_entries \in SettingArchives /\ ~list_rev
    /\ fs = <<[path |-> OutsideFile, content |-> OutsideText]>>
    /\ ntemp = 0
    /\ extract_folder = None
    /\ extracted_files = <<>>
    /\ ret = Blank

\* mkdtemp can still make a directory, or none is needed.
CanExtract == Truthy(extract_to) \/ ntemp < MaxTemp \/ ~validate_zip(zip_status).ok

\* The calls.  Each records what it was given and what it returned in ret.

Returned(r) ==
    /\ ret' = r
    /\ UNCHANGED <<fs, dirs, ntemp, extract_folder, extracted_files>>

ValidateZipReturns(v) ==
    Returned([Blank EXCEPT !.op = "validate_zip", !.success = v.ok,
                           !.message = v.msg])

ValidateZip ==
    /\ ValidateZipReturns(validate_zip(zip_status))
    /\ UNCHANGED <<zip_status, zip_entries, list_rev, deny_delete, extract_to>>

ExtractZipReturns(x) ==
    /\ SetWorld(x.w)
    /\ ret' = [Blank EXCEPT !.op = "extract_zip", !.success = x.success,
                            !.message = x.message, !.files = x.files]

ExtractZip ==
    /\ CanExtract
    /\ \E cut \in ExtractCuts(zip_status, zip_entries) :
          ExtractZipReturns(extract_zip(World, zip_status, zip_entries,
                                        extract_to, cut))
    /\ UNCHANGED <<zip_status, zip_entries, list_rev, deny_delete, extract_to>>

FindXmlFiles ==
    /\ Returned([Blank EXCEPT !.op = "find_xml_files",
                              !.xml_files = find_xml_files(World, list_rev)])
    /\ UNCHANGED <<zip_status, zip_entries, list_rev, deny_delete, extract_to>>

GetXmlFileTimestampsReturns(t) ==
    Returned([Blank EXCEPT !.op = "get_xml_file_timestamps",
                           !.xml_timestamps = t.timestamps,
                           !.warned = t.warned, !.chosen = t.chosen])

GetXmlFileTimestamps ==
    /\ \E st \in StatOutcomesFor(zip_entries) :
          GetXmlFileTimestampsReturns(
              get_xml_file_timestamps(World, zip_status, zip_entries, list_rev, st))
    /\ UNCHANGED <<zip_status, zip_entries, list_rev, deny_delete, extract_to>>

ReadXmlFileReturns(name, r) ==
    Returned([Blank EXCEPT !.op = "read_xml_file", !.arg = name,
                           !.success = r.success, !.message = r.message,
                           !.content = r.content, !.filename = r.filename])

ReadXmlFile ==
    /\ \E name \in ReadNames \cup TraversalNames :
          ReadXmlFileReturns(name, read_xml_file(World, list_rev, name))
    /\ UNCHANGED <<zip_status, zip_entries, list_rev, deny_delete, extract_to>>

CleanupReturns(c) ==
    /\ SetWorld(c.w)
    /\ ret' = [Blank EXCEPT !.op = "cleanup", !.warned = c.warned,
                            !.raised = c.raised]

Cleanup ==
    /\ CleanupReturns(cleanup(World, extract_to, deny_delete))
    /\ UNCHANGED <<zip_status, zip_entries, list_rev, deny_delete, extract_to>>

ProcessZipReturns(target, result, chosen) ==
    ret' = [Blank EXCEPT !.op = "process_zip", !.arg = target,
                         !.success = result.success,
                         !.message = result.message,
                         !.files = result.extracted_files,
                         !.xml_files = result.xml_files,
                         !.xml_timestamps = result.xml_timestamps,
                         !.content = result.xml_content,
                         !.filename = result.xml_filename,
                         !.chosen = chosen]

ProcessZipFrom(scan) ==
    /\ SetWorld(scan.w)
    /\ \E target \in {None} \cup ReadNames :
          ProcessZipReturns(target, process_zip(scan, list_rev, target), scan.chosen)

ProcessZip ==
    /\ CanExtract
    /\ \E cut \in ExtractCuts(zip_status, zip_entries),
          st \in StatOutcomesFor(zip_entries) :
          ProcessZipFrom(process_zip_scan(World, zip_status, zip_entries,
                                          extract_to, list_rev, cut, st))
    /\ UNCHANGED <<zip_status, zip_entries, list_rev, deny_delete, extract_to>>

Next ==
    \/ ValidateZip
    \/ ExtractZip
    \/ FindXmlFiles
    \/ GetXmlFileTimestamps
    \/ ReadXmlFile
    \/ Cleanup
    \/ ProcessZip

Spec == Init /\ [][Next]_vars

\* ------------------------------------------------------------------------
\* What the claims speak of.

\* The regular files below directory d.
FilesUnder(d) ==
    {fs[i].path : i \in {j \in 1..Len(fs) : StartsWith(fs[j].path, d \o <<"/">>)}}

\* The files of the extraction the validator holds.
ScratchFiles == IF Truthy(extract_folder) THEN FilesUnder(extract_folder) ELSE {}

\* The directories mkdtemp has made for the validator.
TempDirs == {TempDir(i) : i \in 1..ntemp}

\* The archive is there, intact, and its members can all be written.
ValidArchive ==
    /\ zip_status = "ok"
    /\ ~ExtractAll(<<>>, {}, TempDir(1), zip_entries, Len(zip_entries)).failed

\* ------------------------------------------------------------------------
\* C1: after extract_zip() and then cleanup() on a valid archive, the scratch
\* directory that extract_zip() made for the extraction is gone from the disk
\* (the file system permitting the deletion).
C1_NoResidualScratch ==
    (/\ ret.op = "cleanup"
     /\ ValidArchive
     /\ ~deny_delete
     /\ extract_folder \in TempDirs)
    => ~Exists(fs, dirs, extract_folder)

\* C2: with a caller-supplied extract_to, no call of cleanup() deletes that
\* directory or a file in it.
C2_CallerDirKept ==
    [][(ret'.op = "cleanup" /\ Truthy(extract_to))
       => /\ extract_to \in dirs => extract_to \in dirs'
          /\ \A i \in 1..Len(fs) :
                StartsWith(fs[i].path, extract_to \o <<"/">>)
                => \E j \in 1..Len(fs') : fs'[j] = fs[i]]_vars

\* C2 at work: cleanup() has returned on a validator that extracted into the
\* caller's directory, and the extracted files are there.
C2_Witness ==
    /\ ret.op = "cleanup"
    /\ extract_to = CallerDir
    /\ extract_folder = CallerDir
    /\ CallerDir \in dirs
    /\ FilesUnder(CallerDir) # {}

\* The extracted files a call of read_xml_file(ret.arg) is about: those whose
\* relative path or base name is the name asked for, and that hold text.
AskedFor(f) ==
    /\ ret.op = "read_xml_file"
    /\ ret.arg \in {Relpath(f, extract_folder), Basename(f)}
    /\ ~DecodeFails(ContentOf(fs, f))

\* read_xml_file returned f.
ReturnedFile(f) ==
    /\ ret.success
    /\ ret.content = ReadText(ContentOf(fs, f))
    /\ ret.filename = Basename(f)

\* C3 as claimed: for every extracted file f, read_xml_file of its relative
\* path and read_xml_file of its base name both succeed and return the
\* content and the name of f, whatever else the extraction contains.
C3_AnyExtraction ==
    \A f \in ScratchFiles : AskedFor(f) => ReturnedFile(f)

\* No other extracted file has a base name ending with that of f, and the
\* scratch root has no directory of that name.
OnlyMatch(f) ==
    /\ \A g \in ScratchFiles : EndsWith(Basename(g), Basename(f)) => g = f
    /\ ~IsDir(fs, dirs, Join(extract_folder, Basename(f)))

\* C3 amended: for every extracted file f of text that is the only match of
\* its base name, read_xml_file of its relative path and read_xml_file of its
\* base name both succeed and return the content and the name of f.
C3_OnlyMatch ==
    \A f \in ScratchFiles : (AskedFor(f) /\ OnlyMatch(f)) => ReturnedFile(f)

\* C3 at work: a file below a subdirectory was asked for by its base name and
\* found by the search.
C3_Witness ==
    \E f \in ScratchFiles :
        /\ AskedFor(f)
        /\ OnlyMatch(f)
        /\ ret.arg = Basename(f)
        /\ Relpath(f, extract_folder) # Basename(f)
        /\ ReturnedFile(f)

\* The members of the archive that extraction leaves on disk: no later
\* member is written to the same path.
Surviving ==
    {i \in 1..Len(zip_entries) :
        \A j \in 1..Len(zip_entries) :
            ExtractName(zip_entries[j].name) = ExtractName(zip_entries[i].name)
            => j <= i}

\* C4: read_xml_file of a member of a valid archive, when it succeeds, returns
\* exactly the text of the member, carriage returns and line feeds included.
C4_RoundTrip ==
    \A i \in Surviving :
        (/\ ret.op = "read_xml_file"
         /\ ValidArchive
         /\ ScratchFiles # {}
         /\ ret.arg = ExtractName(zip_entries[i].name)
         /\ ret.success)
        => ret.content = zip_entries[i].text

\* The files of the extraction that find_xml_files is to report.
XmlScratchFiles == {f \in ScratchFiles : IsXmlName(Basename(f))}

Range(seq) == {seq[i] : i \in 1..Len(seq)}

\* No file or directory of the extraction is at `name`, and no file's base
\* name ends with it.
Unresolvable(name) ==
    /\ ~Exists(fs, dirs, Join(extract_folder, name))
    /\ \A f \in ScratchFiles : ~EndsWith(Basename(f), name)

\* C5: process_zip(target) on a valid archive, with a target that resolves to
\* no extracted file, returns success=false, the extraction message followed
\* by " | " and the read step's message, and the listing, the XML files and
\* the timestamps that the earlier steps gathered.
C5_PartialResults ==
    (/\ ret.op = "process_zip"
     /\ Truthy(ret.arg)
     /\ ValidArchive
     /\ Unresolvable(ret.arg))
    => /\ ~ret.success
       /\ ret.message = MsgExtracted(extract_folder) \o <<" | ">>
                            \o MsgFileNotFound(ret.arg)
       /\ ret.content = None
       /\ ret.files = Namelist(zip_entries)
       /\ Range(ret.xml_files) = XmlScratchFiles
       /\ DOMAIN ret.xml_timestamps \subseteq XmlScratchFiles
       /\ (\A i \in 1..Len(zip_entries) : zip_entries[i].date # 0)
            => DOMAIN ret.xml_timestamps = XmlScratchFiles

\* C5 at work: the target was not found, and the listing, the XML files and
\* their timestamps are in the result.
C5_Witness ==
    /\ ret.op = "process_zip"
    /\ ret.arg = MissingName
    /\ ValidArchive
    /\ Unresolvable(ret.arg)
    /\ ~ret.success
    /\ ret.files # <<>>
    /\ ret.xml_files # <<>>
    /\ DOMAIN ret.xml_timestamps # {}

\* No member of the archive has a name ending in ".xml", in any case.
NoXmlMember ==
    \A i \in 1..Len(zip_entries) : ~IsXmlName(Basename(zip_entries[i].name))

C7_MissingArchive ==
    [][zip_status = "missing"
       => /\ dirs' = dirs /\ fs' = fs /\ ntemp' = ntemp
          /\ extract_folder' = None
          /\ ret'.op = "validate_zip"
                => ~ret'.success /\ ret'.message = MsgNotFound
          /\ ret'.op = "extract_zip"
                => ~ret'.success /\ ret'.message = MsgNotFound /\ ret'.files = <<>>
          /\ ret'.op = "process_zip"
                => /\ ~ret'.success
                   /\ ret'.message = MsgNotFound
                   /\ ret'.files = <<>>
                   /\ ret'.xml_files = <<>>
                   /\ ret'.xml_timestamps = <<>>
                   /\ ret'.content = None]_vars

\* C7 at work: process_zip() has returned on a validator whose archive is
\* missing.
C7_Witness ==
    /\ zip_status = "missing"
    /\ ret.op = "process_zip"
    /\ ret.message = MsgNotFound

\* C8 as claimed: get_xml_file_timestamps() never raises, and a failure
\* inside it, at any point, makes it return an empty mapping.
C8_EmptyOnFailure ==
    ret.op = "get_xml_file_timestamps"
    => /\ ~ret.raised
       /\ ret.warned => ret.xml_timestamps = <<>>

\* C9: cleanup() never raises, a deletion error is reported as a warning
\* only, and a cleanup() right after a cleanup() leaves the disk as it was.
C9_CleanupIdempotent ==
    [][ret'.op = "cleanup"
       => /\ ~ret'.raised
          /\ (deny_delete /\ CleanupDeletes(extract_folder, extract_to)
                /\ Exists(fs, dirs, extract_folder))
                => ret'.warned /\ fs' = fs /\ dirs' = dirs
          /\ ret.op = "cleanup" => fs' = fs /\ dirs' = dirs]_vars

\* C9 at work: cleanup() has returned after a deletion error.
C9_Witness ==
    /\ ret.op = "cleanup"
    /\ ret.warned
    /\ deny_delete
    /\ Exists(fs, dirs, extract_folder)

\* The entries whose normalized name is the normalized relative path, those
\* whose normalized name ends with it, and those with its base name.
ExactEntries(rel) ==
    {i \in 1..Len(zip_entries) :
        ReplaceBackslash(zip_entries[i].name) = ReplaceBackslash(rel)}

SuffixEntries(rel) ==
    {i \in 1..Len(zip_entries) :
        EndsWith(ReplaceBackslash(zip_entries[i].name), ReplaceBackslash(rel))}

BaseEntries(rel) ==
    {i \in 1..Len(zip_entries) :
        Basename(ReplaceBackslash(zip_entries[i].name))
            = Basename(ReplaceBackslash(rel))}

\* C10: for every XML file, the entry whose time get_xml_file_timestamps
\* takes is an exact match if the listing has one; if it has none, a suffix
\* match; if it has none either, the first entry of the same base name.
C10_StrictPrecedence ==
    ret.op \in {"get_xml_file_timestamps", "process_zip"}
    => \A p \in DOMAIN ret.chosen :
          LET rel == Relpath(p, extract_folder)
              z   == ret.chosen[p]
          IN  IF ExactEntries(rel) # {} THEN z \in ExactEntries(rel)
              ELSE IF SuffixEntries(rel) # {} THEN z \in SuffixEntries(rel)
              ELSE IF BaseEntries(rel) # {}
                   THEN z \in BaseEntries(rel) /\ \A j \in BaseEntries(rel) : z <= j
              ELSE z = 0

\* ------------------------------------------------------------------------
\* The messages extract_zip() can fail with on the archive at hand.
ExtractionFailures ==
    CASE zip_status = "missing" -> {MsgNotFound}
      [] zip_status = "notzip"  -> {MsgNotZip}
      [] zip_status = "corrupt" -> {MsgCorrupt, MsgExtractError}
      [] OTHER                  -> {MsgExtractError}

\* The read that process_zip(target) selects succeeds on the extraction at
\* hand: of the target, or else of the base name of the first XML file.
SelectedReadSucceeds(target) ==
    IF Truthy(target) THEN read_xml_file(World, list_rev, target).success
    ELSE /\ XmlScratchFiles # {}
         /\ read_xml_file(World, list_rev,
                          Basename(find_xml_files(World, list_rev)[1])).success

\* C11: process_zip() returns (it does not raise) with success true exactly
\* when the extraction succeeded and either the selected read succeeded or
\* there was no target and no XML file; after a failed extraction the result
\* has success=false, the extraction's message and nothing of a later step.
C11_SuccessIff ==
    ret.op = "process_zip"
    => /\ ~ret.raised
       /\ ret.success <=>
            /\ ValidArchive
            /\ \/ SelectedReadSucceeds(ret.arg)
               \/ ~Truthy(ret.arg) /\ XmlScratchFiles = {}
       /\ ~ValidArchive
            => /\ ~ret.success
               /\ ret.message \in ExtractionFailures
               /\ ret.files = <<>>
               /\ ret.xml_files = <<>>
               /\ ret.xml_timestamps = <<>>
               /\ ret.content = None
               /\ ret.filename = ret.arg

\* C11 at work: the extraction failed with XML files already written, and
\* process_zip() returned.
C11_Witness ==
    /\ ret.op = "process_zip"
    /\ ~ValidArchive
    /\ XmlScratchFiles # {}

\* ------------------------------------------------------------------------
\* C12: when cleanup() has returned on a validator whose extract_to is None
\* or the empty string, no directory that mkdtemp made for it is left on the
\* disk (the file system permitting the deletion), however many extractions
\* came before.
C12_NoTempDirLeft ==
    (/\ ret.op = "cleanup"
     /\ ~deny_delete
     /\ extract_to \in {None, <<>>})
    => \A d \in TempDirs : ~Exists(fs, dirs, d)

\* ------------------------------------------------------------------------
\* C13: whenever read_xml_file(name) succeeds, what it returns is the content
\* of a regular file inside the extraction folder of the validator, also for
\* a name with ".." components and for an absolute path.
C13_ReadsInsideScratch ==
    (ret.op = "read_xml_file" /\ ret.success)
    => \E f \in ScratchFiles :
          /\ ret.content = ReadText(ContentOf(fs, f))
          /\ ret.filename = Basename(f)

\* ------------------------------------------------------------------------
\* C14: process_zip() with no target, when the extraction has an XML file,
\* reads the file at xml_files[0] itself: if that file holds UTF-8 text, the
\* result has success=true, its content and its base name, whatever other
\* files and directories the extraction contains.
C14_ReadsFirstXmlFile ==
    (/\ ret.op = "process_zip"
     /\ ~Truthy(ret.arg)
     /\ ret.xml_files # <<>>
     /\ ~DecodeFails(ContentOf(fs, ret.xml_files[1])))
    => /\ ret.success
       /\ ret.content = ReadText(ContentOf(fs, ret.xml_files[1]))
       /\ ret.filename = Basename(ret.xml_files[1])

====
